---- MODULE Spec2Model ----
(***************************************************************************)
(* Model of fx_lib.py / fx_simulator.py (firo/fx_simulator): the market    *)
(* data cache (_MarketData.get_data), the narrative generator              *)
(* (_genera_commento), input validation and the orchestrator               *)
(* (run_full_analysis).                                                    *)
(*                                                                         *)
(* Numbers.  Python floats are modelled by exact rationals <<n, d>> with   *)
(* d > 0, kept in lowest terms.  Prices of a bar are integers in units of  *)
(* 1/PriceScale, rates are integers in units of 1/RateScale, amounts are   *)
(* whole dollars.  round(x, k) yields the integer number of 10^-k units.   *)
(* The one irrational quantity, the 30-day standard deviation, is carried  *)
(* at a resolution of 1/VolScale.                                          *)
(*                                                                         *)
(* Time.  The wall clock counts TicksPerHour ticks an hour; dates are day  *)
(* numbers counted from 1 January of EpochYear.                            *)
(***************************************************************************)
EXTENDS Integers, Sequences, FiniteSets, TLC

VARIABLES
    clock,             \* datetime.now(), in ticks
    feed,              \* what yf.download returns for each symbol
    _data_cache,       \* _MarketData._data_cache: cache key -> cleaned series
    _cache_timestamp,  \* _MarketData._cache_timestamp: cache key -> tick
    gd,                \* one get_data frame per caller
    dl_last,           \* history: cache key -> tick of the last download issued
    dl_last_ok,        \* history: cache key -> issue tick of the last download that was stored
    pc,                \* position of run_full_analysis
    args,              \* its arguments
    outcome,           \* what the run returned or raised
    prev,              \* the record the caller still holds from the previous identical call
    cm,                \* a bare call of _genera_commento: its inputs and its result
    cli                \* fx_simulator.py: its position, what it printed, what it caught

vars == <<clock, feed, _data_cache, _cache_timestamp, gd, dl_last, dl_last_ok,
          pc, args, outcome, prev, cm, cli>>

None == "None"
NoTick == 0 - 1                            \* no tick recorded
NaN == [nan |-> TRUE, v |-> <<0, 1>>]      \* a float that is not a number
Num(x) == [nan |-> FALSE, v |-> x]         \* a float holding x

(***************************************************************************)
(* Units and bounds                                                        *)
(***************************************************************************)
PriceScale == 10 ^ 2       \* a bar's price p stands for p / 100
RateScale == 10 ^ 3        \* a rate r stands for r / 1000
BpScale == 10 ^ 4          \* daily returns are carried in basis points
VolScale == 10 ^ 5         \* volatility is carried in units of 1e-5
TicksPerHour == 2          \* resolution of the wall clock
HourTicks == 1 * TicksPerHour     \* timedelta(hours=1)
DayTicks == 24 * TicksPerHour     \* one day, for timedelta.days
EpochYear == 2023          \* dates are counted from 1 January of this year
MinRows == 50              \* len(data) < 50
Warn12mRows == 200         \* len(last_12m) < 200
VolWindow == 30            \* rolling(window=30)
SmaWindow == 50            \* rolling(window=50)
TradingDays == 252         \* np.sqrt(252)

MaxElapsed == 3            \* ticks the clock may advance during a behaviour
LastDay == 1000            \* date of the supplier's last bar
\* the clock at start: the evening of LastDay, the last tick of the behaviour
\* falling on midnight
StartTick == LastDay * DayTicks + DayTicks - MaxElapsed
PctDen == 2                \* resolution of the percentiles fed to _genera_commento alone

(***************************************************************************)
(* Exact rational arithmetic                                               *)
(***************************************************************************)
Abs(x) == IF x < 0 THEN -x ELSE x

RECURSIVE Gcd(_, _)
Gcd(a, b) == IF b = 0 THEN a ELSE Gcd(b, a % b)

\* the rational n/d (d # 0) in lowest terms with a positive denominator
R(n, d) ==
    LET g == Gcd(Abs(n), Abs(d))
        s == IF d < 0 THEN -1 ELSE 1
    IN  <<s * (n \div g), s * (d \div g)>>

RInt(k) == <<k, 1>>
RAdd(x, y) ==
    LET g == Gcd(x[2], y[2])
    IN  R(x[1] * (y[2] \div g) + y[1] * (x[2] \div g), (x[2] \div g) * y[2])
RNeg(x) == <<-x[1], x[2]>>
RSub(x, y) == RAdd(x, RNeg(y))
RMul(x, y) ==
    LET a == R(x[1], y[2])
        b == R(y[1], x[2])
    IN  <<a[1] * b[1], a[2] * b[2]>>
RIsZero(x) == x[1] = 0
\* x / y, y # 0
RDiv(x, y) == RMul(x, IF y[1] < 0 THEN <<-y[2], -y[1]>> ELSE <<y[2], y[1]>>)
RLt(x, y) == x[1] * y[2] < y[1] * x[2]
RLe(x, y) == x[1] * y[2] <= y[1] * x[2]
RAbs(x) == <<Abs(x[1]), x[2]>>

\* <<q, r>> with n * 10^k = q * d + r and 0 <= r < d, one decimal digit at a time
RECURSIVE Digits(_, _, _, _)
Digits(q, r, d, k) ==
    IF k = 0 THEN <<q, r>>
    ELSE Digits(q * 10 + ((r * 10) \div d), (r * 10) % d, d, k - 1)

\* round(x, k): the nearest multiple of 10^-k, ties to the even one, as a count
\* of 10^-k units
Round(x, k) ==
    LET qr == Digits(x[1] \div x[2], x[1] % x[2], x[2], k)
        q == qr[1]
        r == qr[2]
    IN  IF 2 * r < x[2] THEN q
        ELSE IF 2 * r > x[2] THEN q + 1
        ELSE IF q % 2 = 0 THEN q ELSE q + 1

\* the integer nearest to sqrt(n / d), n >= 0, d > 0: the largest k >= 0 with
\* (k - 1/2)^2 <= n/d, searched by bisection in lo..hi
SqrtReaches(k, n, d) == k = 0 \/ (k * k - k) * d + ((d + 3) \div 4) <= n
RECURSIVE SqrtSearch(_, _, _, _)
SqrtSearch(lo, hi, n, d) ==
    IF lo = hi THEN lo
    ELSE LET mid == (lo + hi + 1) \div 2
         IN  IF SqrtReaches(mid, n, d) THEN SqrtSearch(mid, hi, n, d)
             ELSE SqrtSearch(lo, mid - 1, n, d)
RoundSqrt(n, d) == SqrtSearch(0, 4000, n, d)

(***************************************************************************)
(* Calendar: Timestamp.strftime("%Y-%m-%d") and pd.DateOffset(years=1)     *)
(***************************************************************************)
IsLeap(y) == (y % 4 = 0 /\ y % 100 # 0) \/ y % 400 = 0
YearLen(y) == IF IsLeap(y) THEN 366 ELSE 365
MonthLen(y, m) ==
    IF m = 2 THEN (IF IsLeap(y) THEN 29 ELSE 28)
    ELSE IF m \in {4, 6, 9, 11} THEN 30 ELSE 31

RECURSIVE YearStart(_)
YearStart(y) == IF y = EpochYear THEN 0 ELSE YearStart(y - 1) + YearLen(y - 1)
RECURSIVE MonthStart(_, _)
MonthStart(y, m) == IF m = 1 THEN 0 ELSE MonthStart(y, m - 1) + MonthLen(y, m - 1)

\* day number -> <<year, month, day>>
CivilFromDay(n) ==
    LET y == CHOOSE yy \in EpochYear..(EpochYear + 8) :
                 YearStart(yy) <= n /\ n < YearStart(yy + 1)
        k == n - YearStart(y)
        m == CHOOSE mm \in 1..12 :
                 MonthStart(y, mm) <= k /\ k < MonthStart(y, mm) + MonthLen(y, mm)
    IN  <<y, m, k - MonthStart(y, m) + 1>>

DayFromCivil(ymd) == YearStart(ymd[1]) + MonthStart(ymd[1], ymd[2]) + ymd[3] - 1

\* strftime("%Y-%m-%d"): a str, no longer a date
strftime(day) ==
    LET c == CivilFromDay(day)
    IN  [type |-> "str", text |-> <<c[1], "-", c[2], "-", c[3]>>]

\* date - pd.DateOffset(years=1): the same day of the previous year, 29 February
\* falling back to 28 February
MinusOneYear(day) ==
    LET c == CivilFromDay(day)
        d == IF c[3] > MonthLen(c[1] - 1, c[2]) THEN MonthLen(c[1] - 1, c[2]) ELSE c[3]
    IN  DayFromCivil(<<c[1] - 1, c[2], d>>)

\* (now - last_date).days, last_date being midnight of a day
DaysBetween(now, day) == (now - day * DayTicks) \div DayTicks

(***************************************************************************)
(* Market series: what the supplier holds                                  *)
(***************************************************************************)
Bar(date, low, close, high, nan) ==
    [date |-> date, Low |-> low, Close |-> close, High |-> high, nan |-> nan]

\* date of bar i of n: consecutive days ending on LastDay; with a stale head the
\* first `stale` bars are more than a year older
BarDate(i, n, stale) == LastDay - (n - i) - (IF i <= stale THEN 400 ELSE 0)

\* closing prices of the shapes
ShapeClose(shape, i, n) ==
    CASE shape = "flat" -> 105
      [] shape = "zigzag" -> IF i % 2 = 1 THEN 105 ELSE 106
      [] shape = "fall" -> 108 - ((i * 8) \div n)
      [] shape = "rise" -> 100 + ((i * 8) \div n)
      [] shape = "dip" -> 105
      [] shape = "zero" -> IF i = n - 5 THEN 0 ELSE 105

ShapeLow(shape, i, n) ==
    CASE shape = "dip" /\ i = n - 10 -> 55
      [] shape = "zero" /\ i = n - 5 -> 0
      [] OTHER -> ShapeClose(shape, i, n) - 1

\* a download of n rows; row `nanAt` (0: none) carries a missing value
MkSeries(n, shape, stale, nanAt) ==
    [i \in 1..n |->
        Bar(BarDate(i, n, stale), ShapeLow(shape, i, n), ShapeClose(shape, i, n),
            ShapeClose(shape, i, n) + 1, i = nanAt)]

\* A DataFrame is held in the state by what it was made from (the rows the
\* supplier sent, and whether dropna has been applied); Rows gives its rows.
NoData == [kind |-> "none", n |-> 0, shape |-> "flat", stale |-> 0, nanAt |-> 0,
           dropped |-> FALSE]
Frame(n, shape, stale, nanAt) ==
    [kind |-> "frame", n |-> n, shape |-> shape, stale |-> stale, nanAt |-> nanAt,
     dropped |-> FALSE]

\* the downloads the analysis runs are checked against
RunFeeds ==
    { NoData,
      Frame(0, "flat", 0, 0),
      Frame(49, "flat", 0, 0),
      Frame(50, "flat", 0, 0),
      Frame(50, "zigzag", 0, 7),
      Frame(199, "zigzag", 0, 0),
      Frame(200, "zigzag", 0, 0),
      Frame(200, "rise", 0, 190),
      Frame(220, "dip", 0, 0),
      Frame(210, "zero", 0, 0),
      Frame(230, "fall", 25, 0) }

\* the downloads the bare cache is checked against
CacheFeeds ==
    { NoData,
      Frame(49, "flat", 0, 0),
      Frame(50, "flat", 0, 0),
      Frame(51, "zigzag", 0, 7) }

(***************************************************************************)
(* pandas / scipy kernels on a cleaned series                              *)
(***************************************************************************)
\* DataFrame.dropna(): the rows without a missing value
DropNaRows(rows) == SelectSeq(rows, LAMBDA b : ~b.nan)
dropna(df) == [df EXCEPT !.dropped = TRUE]

Rows(df) ==
    IF df.kind = "none" THEN <<>>
    ELSE IF df.dropped THEN DropNaRows(MkSeries(df.n, df.shape, df.stale, df.nanAt))
    ELSE MkSeries(df.n, df.shape, df.stale, df.nanAt)

\* data.loc[data.index >= since]
RowsSince(rows, since) == SelectSeq(rows, LAMBDA b : b.date >= since)

Last(rows) == rows[Len(rows)]

SetMin(S) == CHOOSE x \in S : \A y \in S : x <= y
SetMax(S) == CHOOSE x \in S : \A y \in S : x >= y

\* idxmin / idxmax: the date of the first row holding the extreme
FirstIndex(rows, col, v) == SetMin({i \in 1..Len(rows) : rows[i][col] = v})

RECURSIVE SumClose(_, _, _)
SumClose(rows, from, to) ==
    IF from > to THEN 0 ELSE rows[to].Close + SumClose(rows, from, to - 1)

\* scipy.stats.percentileofscore(a, score, kind='rank')
percentileofscore(rows, score) ==
    LET left == Cardinality({i \in 1..Len(rows) : rows[i].Close < score})
        right == Cardinality({i \in 1..Len(rows) : rows[i].Close <= score})
        plus1 == IF left < right THEN 1 ELSE 0
    IN  R((left + right + plus1) * 50, Len(rows))

\* pct_change() at row i, in basis points; "NaN" where the previous close is 0
\* (numpy yields inf or NaN there), or where there is no previous row
PctChangeIsNaN(rows, i) == i < 2 \/ i > Len(rows) \/ rows[i - 1].Close = 0
PctChange(rows, i) ==
    Round(R((rows[i].Close - rows[i - 1].Close) * BpScale, rows[i - 1].Close), 0)

RECURSIVE SumRet(_, _, _, _)
SumRet(rows, from, to, power) ==
    IF from > to THEN 0
    ELSE (IF power = 2 THEN PctChange(rows, to) * PctChange(rows, to)
          ELSE PctChange(rows, to)) + SumRet(rows, from, to - 1, power)

\* daily_returns.rolling(window=30).std().iloc[-1]: the sample standard deviation
\* (ddof = 1) of the last 30 returns, "NaN" when one of them is missing
RollingStdLast(rows) ==
    LET n == Len(rows)
        from == n - VolWindow + 1
    IN  IF from < 2 \/ \E i \in from..n : PctChangeIsNaN(rows, i) THEN NaN
        ELSE LET s1 == SumRet(rows, from, n, 1)
                 s2 == SumRet(rows, from, n, 2)
                 v == VolWindow * s2 - s1 * s1
             IN  \* sqrt(v / (30 * 29)) basis points, in units of 1/VolScale
                 \* the ratio 100/870 is reduced before the root is searched
                 LET q == R((VolScale \div BpScale) * (VolScale \div BpScale),
                            VolWindow * (VolWindow - 1))
                 IN  Num(R(RoundSqrt(v * q[1], q[2]), VolScale))

\* data['Close'].rolling(window=50).mean().iloc[-1]
RollingMeanLast(rows) ==
    LET n == Len(rows)
    IN  IF n < SmaWindow THEN NaN
        ELSE Num(R(SumClose(rows, n - SmaWindow + 1, n), SmaWindow * PriceScale))

\* get_scalar: a NaN is refused with ValueError, anything else becomes a float
get_scalar(value) ==
    IF value.nan THEN [exc |-> "ValueError", value |-> value.v]
    ELSE [exc |-> None, value |-> value.v]

(***************************************************************************)
(* _MarketData.get_data                                                    *)
(***************************************************************************)
Symbols == {"EURUSD=X"}
Periods == {"18mo", "1y"}
Intervals == {"1d"}
Callers == {"main", "t1", "t2"}
Threads == {"t1", "t2"}

EmptyMap == [k \in {} |-> None]
Put(f, k, v) == [x \in DOMAIN f \cup {k} |-> IF x = k THEN v ELSE f[x]]

\* cache_key = f"{symbol}-{period}-{interval}"
cache_key(symbol, period, interval) == symbol \o "-" \o period \o "-" \o interval

\* a caller that is not inside get_data
IdleFrame ==
    [pc |-> "idle", symbol |-> None, key |-> None, force |-> FALSE, data |-> NoData,
     ret |-> NoData, exc |-> None, issued |-> FALSE, answered |-> FALSE,
     t_issue |-> NoTick,
     gap_any |-> NoTick, gap_ok |-> NoTick]

\* cache_age < timedelta(hours=1)
Fresh_HalfHour(cache_age) == 2 * cache_age < HourTicks
Fresh(cache_age) == cache_age < HourTicks

\* lines 61-65: is the call answered from the cache?  A key without a timestamp
\* reads datetime.min and is never fresh.
CacheHit(f) ==
    /\ ~f.force
    /\ f.key \in DOMAIN _data_cache
    /\ f.key \in DOMAIN _cache_timestamp
    /\ Fresh(clock - _cache_timestamp[f.key])

\* lines 73-79: what a finished download is turned into
Validated_Min200(raw) ==
    IF raw.kind = "none" \/ Len(Rows(raw)) = 0 THEN [exc |-> "MarketDataError", data |-> NoData]
    ELSE IF Len(Rows(dropna(raw))) < Warn12mRows THEN [exc |-> "MarketDataError", data |-> NoData]
    ELSE [exc |-> None, data |-> dropna(raw)]
Validated(raw) ==
    IF raw.kind = "none" \/ Len(Rows(raw)) = 0 THEN [exc |-> "MarketDataError", data |-> NoData]
    ELSE IF Len(Rows(dropna(raw))) < MinRows THEN [exc |-> "MarketDataError", data |-> NoData]
    ELSE [exc |-> None, data |-> dropna(raw)]

\* line 58: the call is entered
GdEnter(c, symbol, period, interval, force) ==
    /\ gd[c].pc = "idle"
    /\ gd' = [gd EXCEPT ![c] = [IdleFrame EXCEPT !.pc = "check", !.symbol = symbol,
                                   !.key = cache_key(symbol, period, interval),
                                   !.force = force]]

\* lines 61-65
GdCheckStep(c) ==
    /\ gd[c].pc = "check"
    /\ IF CacheHit(gd[c])
       THEN gd' = [gd EXCEPT ![c].pc = "return", ![c].ret = _data_cache[gd[c].key]]
       ELSE gd' = [gd EXCEPT ![c].pc = "download"]
    /\ UNCHANGED <<_data_cache, _cache_timestamp, dl_last, dl_last_ok>>

\* lines 68-79 and 88-90: the download is issued; it raises (net = "down") or
\* returns what the supplier holds, and every failure leaves as MarketDataError
GdDownloadStep(c) ==
    /\ gd[c].pc = "download"
    /\ \E net \in {"up", "down"} :
         LET f == gd[c]
             v == IF net = "down" THEN [exc |-> "MarketDataError", data |-> NoData]
                  ELSE Validated(feed[f.symbol])
             g == [f EXCEPT !.issued = TRUE, !.answered = (net = "up"), !.t_issue = clock,
                            !.gap_any = IF f.key \in DOMAIN dl_last
                                        THEN clock - dl_last[f.key] ELSE NoTick,
                            !.gap_ok = IF f.key \in DOMAIN dl_last_ok
                                       THEN clock - dl_last_ok[f.key] ELSE NoTick]
         IN  gd' = [gd EXCEPT ![c] =
                       IF v.exc # None THEN [g EXCEPT !.pc = "raise", !.exc = v.exc]
                       ELSE [g EXCEPT !.pc = "store_data", !.data = v.data]]
    /\ dl_last' = Put(dl_last, gd[c].key, clock)
    /\ UNCHANGED <<_data_cache, _cache_timestamp, dl_last_ok>>

\* line 82: what is put in the cache is the cleaned series that is returned
StoredValue_Raw(f) == feed[f.symbol]
StoredValue(f) == f.data

\* line 82
GdStoreDataStep(c) ==
    /\ gd[c].pc = "store_data"
    /\ _data_cache' = Put(_data_cache, gd[c].key, StoredValue(gd[c]))
    /\ gd' = [gd EXCEPT ![c].pc = "store_stamp"]
    /\ UNCHANGED <<_cache_timestamp, dl_last, dl_last_ok>>

\* lines 83-86
GdStoreStampStep(c) ==
    /\ gd[c].pc = "store_stamp"
    /\ _cache_timestamp' = Put(_cache_timestamp, gd[c].key, clock)
    /\ dl_last_ok' = Put(dl_last_ok, gd[c].key, gd[c].t_issue)
    /\ gd' = [gd EXCEPT ![c].pc = "return", ![c].ret = gd[c].data]
    /\ UNCHANGED <<_data_cache, dl_last>>

runvars == <<pc, args, outcome, prev, cli>>

GdCheck(c) == GdCheckStep(c) /\ UNCHANGED <<clock, feed, cm, runvars>>
GdDownload(c) == GdDownloadStep(c) /\ UNCHANGED <<clock, feed, cm, runvars>>
GdStoreData(c) == GdStoreDataStep(c) /\ UNCHANGED <<clock, feed, cm, runvars>>
GdStoreStamp(c) == GdStoreStampStep(c) /\ UNCHANGED <<clock, feed, cm, runvars>>

\* datetime.now() moves on
Tick ==
    /\ clock - StartTick < MaxElapsed
    /\ clock' = clock + 1
    /\ UNCHANGED <<feed, _data_cache, _cache_timestamp, gd, dl_last, dl_last_ok, cm, runvars>>

(***************************************************************************)
(* The cache alone, called by one caller, one call after the other         *)
(***************************************************************************)
NoArgs == [usd_amount |-> 0, fineco_rate_usd_eur |-> 0, symbol |-> None]
NoOutcome == [kind |-> "none"]
NoPrev == [held |-> FALSE]
NoCm == [called |-> FALSE]
\* the script before line 62
NoCli == [pc |-> "start", printed |-> <<>>, exc |-> None, branch |-> None]

InitCommon ==
    /\ clock = StartTick
    /\ _data_cache = EmptyMap
    /\ _cache_timestamp = EmptyMap
    /\ gd = [c \in Callers |-> IdleFrame]
    /\ dl_last = EmptyMap
    /\ dl_last_ok = EmptyMap
    /\ pc = "idle"
    /\ args = NoArgs
    /\ outcome = NoOutcome
    /\ prev = NoPrev
    /\ cm = NoCm
    /\ cli = NoCli

InitCache ==
    /\ InitCommon
    /\ feed \in [Symbols -> CacheFeeds]

\* market_data_provider.get_data(symbol, period, interval, force_refresh)
DirectCall(c) ==
    /\ \E symbol \in Symbols, period \in Periods, interval \in Intervals, force \in BOOLEAN :
         GdEnter(c, symbol, period, interval, force)
    /\ UNCHANGED <<clock, feed, _data_cache, _cache_timestamp, dl_last, dl_last_ok, cm, runvars>>

\* the value is returned, or the MarketDataError is raised, to the caller
DirectReturn(c) ==
    /\ gd[c].pc \in {"return", "raise"}
    /\ gd' = [gd EXCEPT ![c] = IdleFrame]
    /\ UNCHANGED <<clock, feed, _data_cache, _cache_timestamp, dl_last, dl_last_ok, cm, runvars>>

NextCache ==
    \/ DirectCall("main")
    \/ GdCheck("main")
    \/ GdDownload("main")
    \/ GdStoreData("main")
    \/ GdStoreStamp("main")
    \/ DirectReturn("main")
    \/ Tick

SpecCache == InitCache /\ [][NextCache]_vars

(***************************************************************************)
(* The cache called by two threads at once, each asking once for the same  *)
(* key while the cache is empty                                            *)
(***************************************************************************)
InitConc ==
    /\ InitCommon
    /\ feed \in [Symbols -> CacheFeeds]

ThreadCall(t) ==
    /\ gd[t] = IdleFrame
    /\ GdEnter(t, "EURUSD=X", "18mo", "1d", FALSE)
    /\ UNCHANGED <<clock, feed, _data_cache, _cache_timestamp, dl_last, dl_last_ok, cm, runvars>>

NextConc ==
    \/ \E t \in Threads : ThreadCall(t)
    \/ \E t \in Threads : GdCheck(t)
    \/ \E t \in Threads : GdDownload(t)
    \/ \E t \in Threads : GdStoreData(t)
    \/ \E t \in Threads : GdStoreStamp(t)
    \/ Tick

SpecConc == InitConc /\ [][NextConc]_vars

(***************************************************************************)
(* _genera_commento                                                        *)
(***************************************************************************)
volatility_threshold == R(75, 10000)

\* lines 142-153: the scenario of a percentile
Scenario_Strict(percentile) ==
    IF RLt(percentile, RInt(15)) THEN "ECCELLENTE"
    ELSE IF RLt(percentile, RInt(40)) THEN "BUONO"
    ELSE IF RLt(percentile, RInt(70)) THEN "NEUTRO"
    ELSE "SFAVOREVOLE"
Scenario(percentile) ==
    IF RLe(percentile, RInt(15)) THEN "ECCELLENTE"
    ELSE IF RLe(percentile, RInt(40)) THEN "BUONO"
    ELSE IF RLe(percentile, RInt(70)) THEN "NEUTRO"
    ELSE "SFAVOREVOLE"

\* lines 144-153: descrizione_base goes with the scenario
Descrizione(scenario) ==
    CASE scenario = "ECCELLENTE" -> "Il Dollaro e' ai massimi storici"
      [] scenario = "BUONO" -> "Il Dollaro e' forte rispetto alla media"
      [] scenario = "NEUTRO" -> "Il cambio e' in una fase intermedia"
      [] scenario = "SFAVOREVOLE" -> "L'Euro e' forte"

\* lines 156-161
CtxVolatilita(volatility) ==
    IF RLt(RMul(volatility_threshold, RInt(2)), volatility) THEN "molto volatile"
    ELSE IF RLt(volatility_threshold, volatility) THEN "una certa volatilita'"
    ELSE "relativamente stabile"

\* lines 165-172; the percentage is formatted with one decimal (:.1f); sma50 # 0
CtxTrend(mkt_today, sma50) ==
    LET diff_pct == RMul(RDiv(RSub(mkt_today, sma50), sma50), RInt(100))
    IN  IF RLt(RAbs(diff_pct), R(1, 2)) THEN <<"allineato con la media">>
        ELSE IF RLt(mkt_today, sma50)
             THEN <<"il trend favorisce il Dollaro, sotto media del", Round(RAbs(diff_pct), 1)>>
             ELSE <<"il trend favorisce l'Euro, sopra media del", Round(diff_pct, 1)>>

\* line 175: the comment, kept as its four parts
_genera_commento(percentile, volatility, mkt_today, sma50) ==
    [scenario |-> Scenario(percentile),
     descrizione_base |-> Descrizione(Scenario(percentile)),
     ctx_volatilita |-> CtxVolatilita(volatility),
     ctx_trend |-> CtxTrend(mkt_today, sma50)]

NoComment ==
    [scenario |-> None, descrizione_base |-> None, ctx_volatilita |-> None,
     ctx_trend |-> <<None>>]

\* a bare call of the function on inputs drawn at the start
CmPercentiles == {R(p, PctDen) : p \in 0..(100 * PctDen)}
CmVolatilities == {R(0, 1), R(75, 10000), R(76, 10000), R(150, 10000), R(151, 10000)}
CmPrices == {<<R(105, 100), R(105, 100)>>, <<R(104, 100), R(105, 100)>>,
             <<R(108, 100), R(105, 100)>>, <<R(100, 100), R(105, 100)>>}

InitCommento ==
    /\ clock = StartTick
    /\ feed = [s \in Symbols |-> NoData]
    /\ _data_cache = EmptyMap
    /\ _cache_timestamp = EmptyMap
    /\ gd = [c \in Callers |-> IdleFrame]
    /\ dl_last = EmptyMap
    /\ dl_last_ok = EmptyMap
    /\ pc = "idle"
    /\ args = NoArgs
    /\ outcome = NoOutcome
    /\ prev = NoPrev
    /\ cli = NoCli
    /\ \E p \in CmPercentiles, v \in CmVolatilities, q \in CmPrices :
         cm = [percentile |-> p, volatility |-> v, mkt_today |-> q[1], sma50 |-> q[2],
               called |-> FALSE, out |-> NoComment]

Narrate ==
    /\ ~cm.called
    /\ cm' = [cm EXCEPT !.called = TRUE,
                         !.out = _genera_commento(cm.percentile, cm.volatility,
                                                  cm.mkt_today, cm.sma50)]
    /\ UNCHANGED <<clock, feed, _data_cache, _cache_timestamp, gd, dl_last, dl_last_ok,
                   runvars>>

NextCommento == Narrate

SpecCommento == InitCommento /\ [][NextCommento]_vars

(***************************************************************************)
(* validate_inputs and run_full_analysis                                   *)
(***************************************************************************)
\* lines 184-193: the exception raised, or None.  Line 191 divides by the rate.
validate_inputs_Strict(usd_amount, fineco_rate_usd_eur) ==
    IF usd_amount < 0 THEN "ValueError"
    ELSE IF fineco_rate_usd_eur < 0 THEN "ValueError"
    ELSE IF fineco_rate_usd_eur = 0 THEN "ZeroDivisionError"
    ELSE None
validate_inputs(usd_amount, fineco_rate_usd_eur) ==
    IF usd_amount <= 0 THEN "ValueError"
    ELSE IF fineco_rate_usd_eur <= 0 THEN "ValueError"
    ELSE IF fineco_rate_usd_eur = 0 THEN "ZeroDivisionError"
    ELSE None

\* lines 320-324: what leaves the try block for an exception raised inside it
Handler_Reraise(exc) == exc
Handler(exc) == IF exc = "MarketDataError" THEN "MarketDataError" ELSE "MarketDataError"

\* line 227
EurActual_WholeEuros(usd_amount, rate) == RInt(Round(RMul(usd_amount, rate), 0))
EurActual(usd_amount, rate) == RMul(usd_amount, rate)

ResultFields ==
    {"eur_actual", "usd_amount", "mkt_today", "fineco_rate_eurusd", "spread_points",
     "spread_percentage", "stat_percentile", "volatility", "volatility_annualized",
     "sma50", "commento_dinamico", "best_mkt_rate_12m", "worst_mkt_rate_12m",
     "best_eur_historical", "worst_eur_historical", "eur_difference_from_max",
     "eur_difference_from_min", "potential_gain_pct", "best_day", "worst_day",
     "last_update", "data_age_days"}

Raised(exc) == [exc |-> exc]

\* lines 284-318: the record returned, with the unrounded amounts beside it;
\* b, ind and h hold the locals of lines 219-234, 238-259 and 262-281
Assemble(b, ind, h) ==
    [exc |-> None,
     locals |-> [eur_actual |-> b.eur_actual,
                 best_eur_historical |-> h.best_eur_historical,
                 worst_eur_historical |-> h.worst_eur_historical],
     result |->
       [eur_actual |-> Round(b.eur_actual, 2),
        usd_amount |-> b.amount,
        mkt_today |-> Round(b.mkt_today, 5),
        fineco_rate_eurusd |-> Round(h.fineco_equivalent_rate, 5),
        spread_points |-> Round(h.spread_points, 5),
        spread_percentage |-> Round(h.spread_percentage, 2),
        stat_percentile |-> Round(ind.stat_percentile, 1),
        volatility |-> Round(ind.volatility, 5),
        volatility_annualized |->
            \* volatility * sqrt(TradingDays), rounded to 4 places
            RoundSqrt(TradingDays * Round(ind.volatility, 5) * Round(ind.volatility, 5),
                      (VolScale \div BpScale) * (VolScale \div BpScale)),
        sma50 |-> Round(ind.sma50, 5),
        commento_dinamico |-> ind.commento_dinamico,
        best_mkt_rate_12m |-> Round(h.best_mkt_rate, 5),
        worst_mkt_rate_12m |-> Round(h.worst_mkt_rate, 5),
        best_eur_historical |-> Round(h.best_eur_historical, 2),
        worst_eur_historical |-> Round(h.worst_eur_historical, 2),
        eur_difference_from_max |->
            Round(RSub(h.best_eur_historical, b.eur_actual), 2),
        eur_difference_from_min |->
            Round(RSub(b.eur_actual, h.worst_eur_historical), 2),
        potential_gain_pct |->
            Round(RMul(RDiv(RSub(h.best_eur_historical, b.eur_actual), b.eur_actual),
                       RInt(100)), 2),
        best_day |-> strftime(h.best_day),
        worst_day |-> strftime(h.worst_day),
        last_update |-> strftime(Last(b.data).date),
        data_age_days |-> b.days_old]]

\* lines 268-281 and the division of line 311
Historical(b, ind, fineco_equivalent_rate, spread_points, low_min, high_max) ==
    LET best_div == RAdd(R(low_min, PriceScale), spread_points)
        worst_div == RAdd(R(high_max, PriceScale), spread_points)
    IN  IF \/ RIsZero(b.mkt_today) \/ RIsZero(best_div)
           \/ RIsZero(worst_div) \/ RIsZero(b.eur_actual)
        THEN Raised("ZeroDivisionError")
        ELSE Assemble(b, ind,
                 [fineco_equivalent_rate |-> fineco_equivalent_rate,
                  spread_points |-> spread_points,
                  spread_percentage |-> RMul(RDiv(spread_points, b.mkt_today), RInt(100)),
                  best_mkt_rate |-> R(low_min, PriceScale),
                  worst_mkt_rate |-> R(high_max, PriceScale),
                  best_eur_historical |-> RDiv(b.usd_amount, best_div),
                  worst_eur_historical |-> RDiv(b.usd_amount, worst_div),
                  best_day |-> b.last_12m[FirstIndex(b.last_12m, "Low", low_min)].date,
                  worst_day |-> b.last_12m[FirstIndex(b.last_12m, "High", high_max)].date])

\* lines 262-267
Spread(b, ind, fineco_equivalent_rate, low_min, high_max) ==
    Historical(b, ind, fineco_equivalent_rate,
               RSub(fineco_equivalent_rate, b.mkt_today), low_min, high_max)

\* lines 256-266; line 165 divides by sma50
Narrative(b, stat_percentile, volatility, sma50) ==
    IF RIsZero(sma50) THEN Raised("ZeroDivisionError")
    ELSE Spread(b,
                [stat_percentile |-> stat_percentile,
                 volatility |-> volatility,
                 sma50 |-> sma50,
                 commento_dinamico |->
                     _genera_commento(stat_percentile, volatility, b.mkt_today, sma50)],
                RDiv(RInt(1), b.rate),
                SetMin({b.last_12m[i].Low : i \in 1..Len(b.last_12m)}),
                SetMax({b.last_12m[i].High : i \in 1..Len(b.last_12m)}))

\* lines 238-256
Indicators(b, vol_last, sma_last) ==
    IF vol_last.nan THEN Raised("ValueError")
    ELSE IF sma_last.nan THEN Raised("ValueError")
    ELSE Narrative(b, percentileofscore(b.last_12m, Last(b.data).Close),
                   get_scalar(vol_last).value, get_scalar(sma_last).value)

\* lines 219-234
Basics(amount, rate, data, now, s_mkt) ==
    IF s_mkt.exc # None THEN Raised(s_mkt.exc)
    ELSE Indicators([amount |-> amount,
                     usd_amount |-> RInt(amount),
                     rate |-> rate,
                     data |-> data,
                     days_old |-> DaysBetween(now, Last(data).date),
                     mkt_today |-> s_mkt.value,
                     eur_actual |-> EurActual(RInt(amount), rate),
                     last_12m |-> RowsSince(data, MinusOneYear(Last(data).date))],
                    RollingStdLast(data), RollingMeanLast(data))

\* lines 219-318 on the DataFrame `df` at time `now`: the exception raised inside
\* the try block, or the record returned together with the unrounded amounts
Analysis(amount, r, df, now) ==
    Basics(amount, R(r, RateScale), Rows(df), now,
           get_scalar(Num(R(Last(Rows(df)).Close, PriceScale))))

Amounts == {-5, 0, 100, 10000}
Rates == {-1, 0, 955, 2000, 2500}
RunSymbols == {"EURUSD=X"}

Init ==
    /\ InitCommon
    /\ feed \in [Symbols -> RunFeeds]

\* run_full_analysis(usd_amount, fineco_rate_usd_eur, symbol) is called; the caller
\* still holds the record of its previous call when that call had the same arguments
Call ==
    /\ pc = "idle"
    /\ \E a \in Amounts, r \in Rates, s \in RunSymbols :
         LET new == [usd_amount |-> a, fineco_rate_usd_eur |-> r, symbol |-> s]
         IN  /\ args' = new
             /\ prev' = IF prev.held /\ prev.args = new THEN prev ELSE NoPrev
    /\ pc' = "validate"
    /\ outcome' = NoOutcome
    /\ UNCHANGED <<clock, feed, _data_cache, _cache_timestamp, gd, dl_last, dl_last_ok, cm, cli>>

\* line 212, outside the try block: an exception leaves the function as it is
ValidateInputs ==
    /\ pc = "validate"
    /\ LET exc == validate_inputs(args.usd_amount, args.fineco_rate_usd_eur)
       IN  IF exc # None
           THEN pc' = "done" /\ outcome' = [kind |-> exc]
           ELSE pc' = "fetch" /\ outcome' = outcome
    /\ UNCHANGED <<clock, feed, _data_cache, _cache_timestamp, gd, dl_last, dl_last_ok,
                   args, prev, cm, cli>>

\* line 216: market_data_provider.get_data(symbol)
FetchData ==
    /\ pc = "fetch"
    /\ GdEnter("main", args.symbol, "18mo", "1d", FALSE)
    /\ pc' = "get_data"
    /\ UNCHANGED <<clock, feed, _data_cache, _cache_timestamp, dl_last, dl_last_ok,
                   args, outcome, prev, cm, cli>>

\* lines 219-324: get_data has returned or raised; the rest of the try block runs
\* and the function returns its record or raises through the handlers
Analyse ==
    /\ pc = "get_data"
    /\ gd["main"].pc \in {"return", "raise"}
    /\ LET got == IF gd["main"].pc = "raise" THEN Raised(gd["main"].exc)
                  ELSE Analysis(args.usd_amount, args.fineco_rate_usd_eur,
                                gd["main"].ret, clock)
       IN  outcome' = IF got.exc # None THEN [kind |-> Handler(got.exc)]
                      ELSE [kind |-> "ok", result |-> got.result, locals |-> got.locals]
    /\ gd' = [gd EXCEPT !["main"].pc = "idle"]
    /\ pc' = "done"
    /\ UNCHANGED <<clock, feed, _data_cache, _cache_timestamp, dl_last, dl_last_ok,
                   args, prev, cm, cli>>

\* the caller has the outcome in hand
Return ==
    /\ pc = "done"
    /\ pc' = "idle"
    /\ prev' = [held |-> TRUE, args |-> args, outcome |-> outcome]
    /\ gd' = [gd EXCEPT !["main"] = IdleFrame]
    /\ UNCHANGED <<clock, feed, _data_cache, _cache_timestamp, dl_last, dl_last_ok,
                   args, outcome, cm, cli>>

Next ==
    \/ Call
    \/ ValidateInputs
    \/ FetchData
    \/ GdCheck("main")
    \/ GdDownload("main")
    \/ GdStoreData("main")
    \/ GdStoreStamp("main")
    \/ Analyse
    \/ Return
    \/ Tick

Spec == Init /\ [][Next]_vars

(***************************************************************************)
(* fx_simulator.py: one run of the script from line 62 on                  *)
(***************************************************************************)
\* line 51: 0.8462, carried at the resolution of 1/RateScale
FINECO_RATE_USD_EUR == 846
SYMBOL == "EURUSD=X"

\* line 43: the amount made of the number the user typed
USD_AMOUNT(val_raw) == IF val_raw < 1000 THEN val_raw * 1000 ELSE val_raw

\* the numbers typed at line 41
UserInputs == {-5, 0, 1, 10, 2000}

\* the print statements of the try block, by line
ReportLines == <<69, 70, 71, 72, 73, 74, 77, 78, 79, 80, 81, 82, 83, 84, 85>>

\* what a print statement reads of `results`, and how it uses the value:
\* "float" is a numeric format (:,.2f, :.4f, :.1f), "str" a plain {...},
\* "strftime" a call of the value's strftime method
Reads(line) ==
    CASE line = 72 -> {<<"eur_actual", "float">>}
      [] line = 73 -> {<<"mkt_today", "float">>}
      [] line = 77 -> {<<"stat_percentile", "float">>}
      [] line = 78 -> {<<"volatility", "float">>}
      [] line = 80 -> {<<"commento_dinamico", "str">>}
      [] line = 83 -> {<<"best_day", "strftime">>, <<"best_eur_historical", "float">>}
      [] line = 84 -> {<<"eur_difference_from_max", "float">>}
      [] OTHER -> {}

\* lines 313-315: the fields of the record that are made by strftime
DateFields == {"best_day", "worst_day", "last_update"}

\* lines 286-311: the fields of the record that are floats (round(...), or the
\* amount passed in)
FloatFields == ResultFields \ (DateFields \cup {"commento_dinamico", "data_age_days"})

\* the exception one print statement raises on `results`, or None: a missing
\* key is a KeyError, a numeric format of a value that is no number a
\* ValueError, strftime on a value that has no such method an AttributeError
PrintRaises(results, line) ==
    IF \E rd \in Reads(line) : rd[1] \notin DOMAIN results THEN "KeyError"
    ELSE IF \E rd \in Reads(line) : rd[2] = "float" /\ rd[1] \notin FloatFields
         THEN "ValueError"
    ELSE IF \E rd \in Reads(line) : rd[2] = "strftime" /\ results[rd[1]].type = "str"
         THEN "AttributeError"
    ELSE None

\* line 62: run_full_analysis(USD_AMOUNT, FINECO_RATE_USD_EUR, symbol=SYMBOL)
CliCall ==
    /\ cli.pc = "start"
    /\ pc = "idle"
    /\ \E val_raw \in UserInputs :
         args' = [usd_amount |-> USD_AMOUNT(val_raw),
                  fineco_rate_usd_eur |-> FINECO_RATE_USD_EUR, symbol |-> SYMBOL]
    /\ pc' = "validate"
    /\ cli' = [cli EXCEPT !.pc = "analysis"]
    /\ UNCHANGED <<clock, feed, _data_cache, _cache_timestamp, gd, dl_last, dl_last_ok,
                   outcome, prev, cm>>

\* line 62: the call returns its record to `results`, or raises into line 87
CliResult ==
    /\ cli.pc = "analysis"
    /\ pc = "done"
    /\ cli' = IF outcome.kind = "ok" THEN [cli EXCEPT !.pc = "report"]
              ELSE [cli EXCEPT !.pc = "except", !.exc = outcome.kind]
    /\ UNCHANGED <<clock, feed, _data_cache, _cache_timestamp, gd, dl_last, dl_last_ok,
                   pc, args, outcome, prev, cm>>

\* lines 69-85: the next print statement of the report
CliPrint ==
    /\ cli.pc = "report"
    /\ LET line == ReportLines[Len(cli.printed) + 1]
           exc == PrintRaises(outcome.result, line)
       IN  cli' = IF exc # None THEN [cli EXCEPT !.pc = "except", !.exc = exc]
                  ELSE IF line = ReportLines[Len(ReportLines)]
                       THEN [cli EXCEPT !.printed = Append(@, line), !.pc = "end",
                                        !.branch = "report"]
                  ELSE [cli EXCEPT !.printed = Append(@, line)]
    /\ UNCHANGED <<clock, feed, _data_cache, _cache_timestamp, gd, dl_last, dl_last_ok,
                   pc, args, outcome, prev, cm>>

\* lines 87-92: except Exception
CliExcept ==
    /\ cli.pc = "except"
    /\ cli' = [cli EXCEPT !.pc = "end", !.branch = "error"]
    /\ UNCHANGED <<clock, feed, _data_cache, _cache_timestamp, gd, dl_last, dl_last_ok,
                   pc, args, outcome, prev, cm>>

NextCli ==
    \/ CliCall
    \/ ValidateInputs
    \/ FetchData
    \/ GdCheck("main")
    \/ GdDownload("main")
    \/ GdStoreData("main")
    \/ GdStoreStamp("main")
    \/ Analyse
    \/ CliResult
    \/ CliPrint
    \/ CliExcept
    \/ Tick

SpecCli == Init /\ [][NextCli]_vars

(***************************************************************************)
(* Properties                                                              *)
(***************************************************************************)
ValidArgs == args.usd_amount > 0 /\ args.fineco_rate_usd_eur > 0

\* every bar has 0 < Low <= Close <= High
WellFormedBars(rows) ==
    \A i \in 1..Len(rows) :
        0 < rows[i].Low /\ rows[i].Low <= rows[i].Close /\ rows[i].Close <= rows[i].High

\* the rows the supplier holds for the symbol of the run, and those without a
\* missing value
Supplied == Rows(feed[args.symbol])
SuppliedClean == DropNaRows(Supplied)

\* get_data of the run had a series in hand: the supplier answered the download,
\* or the cache did
SeriesInHand == gd["main"].answered \/ gd["main"].ret # NoData

\* C1: a call with amount <= 0 or rate <= 0 ends in the validation step with a
\* ValueError: from there to the end of the call get_data is not entered, no
\* download is issued and _data_cache and _cache_timestamp stay as they are.
C1_InvalidInputStopsAtValidation ==
    [][ (pc \in {"validate", "done"} /\ ~ValidArgs) =>
          /\ UNCHANGED <<_data_cache, _cache_timestamp, dl_last, dl_last_ok, gd>>
          /\ gd["main"] = IdleFrame
          /\ pc = "validate" => (pc' \in {"validate", "done"}
                                 /\ (pc' = "done" => outcome'.kind = "ValueError"))
          /\ pc = "done" => outcome.kind = "ValueError" ]_vars

\* C1 witness: an invalid call has failed while the cache holds an earlier download
C1_Witness ==
    /\ pc = "done"
    /\ ~ValidArgs
    /\ outcome.kind = "ValueError"
    /\ _data_cache # EmptyMap
    /\ DOMAIN _cache_timestamp = DOMAIN _data_cache

\* C2: a finished run has returned a complete record, or raised one error and
\* returned nothing; the error is a ValueError exactly when amount <= 0 or
\* rate <= 0, and every other failure is a MarketDataError.
C2_TypedOutcome ==
    pc = "done" =>
        /\ outcome.kind \in {"ok", "ValueError", "MarketDataError"}
        /\ (outcome.kind = "ValueError") <=> ~ValidArgs
        /\ outcome.kind = "ok" => DOMAIN outcome.result = ResultFields
        /\ outcome.kind # "ok" => DOMAIN outcome = {"kind"}

\* C2 witness: get_data returned a series and a later stage of the run failed
C2_Witness ==
    /\ pc = "done"
    /\ ValidArgs
    /\ gd["main"].ret # NoData
    /\ outcome.kind = "MarketDataError"

\* C3 as stated: no two downloads of one cache key are issued less than one
\* hour apart, whatever the calls pass and whatever the downloads return.
C3_NoTwoDownloadsWithinTheHour ==
    \A c \in Callers :
        (gd[c].issued /\ gd[c].gap_any # NoTick) => gd[c].gap_any >= HourTicks

\* C3 amended: in calls made one after the other, a download without
\* force_refresh is never issued less than one hour after the issue of the last
\* download of the same key that was stored in the cache.
C3_UnforcedDownloadOutsideTheHour ==
    \A c \in Callers :
        (gd[c].issued /\ ~gd[c].force /\ gd[c].gap_ok # NoTick)
            => gd[c].gap_ok >= HourTicks

\* C3 witness: a key that was stored is downloaded again without force_refresh
C3_Witness ==
    /\ gd["main"].issued
    /\ ~gd["main"].force
    /\ gd["main"].gap_ok # NoTick
    /\ gd["main"].key \in DOMAIN _data_cache

\* C4 as stated: callers asking together for a key that is absent or stale
\* cause one download at most; in particular no two downloads of the key both
\* succeed within one hour of each other.
C4_SingleFlight ==
    \A t \in Threads, u \in Threads :
        (/\ t # u
         /\ gd[t].key = gd[u].key
         /\ gd[t].issued /\ gd[t].data # NoData
         /\ gd[u].issued /\ gd[u].data # NoData
         /\ gd[t].t_issue >= gd[u].t_issue)
            => gd[t].t_issue - gd[u].t_issue >= HourTicks

\* C5 as stated: with valid inputs, a supplier answering with exactly 200 bars
\* without missing values makes the run succeed, and one holding 199 bars
\* makes it fail.
C5_Boundary200 ==
    (pc = "done" /\ ValidArgs) =>
        /\ (SeriesInHand /\ Len(Supplied) = Warn12mRows /\ Len(SuppliedClean) = Warn12mRows)
              => outcome.kind = "ok"
        /\ Len(Supplied) = Warn12mRows - 1 => outcome.kind # "ok"

\* neither divisor of lines 271-272 is zero on the supplied series:
\* p / PriceScale + RateScale / rate - close / PriceScale # 0 for p the lowest
\* Low and the highest High of the last 12 months
DivisorsNotZero ==
    LET last_12m == RowsSince(SuppliedClean, MinusOneYear(Last(SuppliedClean).date))
        close == Last(SuppliedClean).Close
        low_min == SetMin({last_12m[i].Low : i \in 1..Len(last_12m)})
        high_max == SetMax({last_12m[i].High : i \in 1..Len(last_12m)})
    IN  /\ (low_min - close) * args.fineco_rate_usd_eur + PriceScale * RateScale # 0
        /\ (high_max - close) * args.fineco_rate_usd_eur + PriceScale * RateScale # 0

\* C5 amended: the run fails for length exactly when fewer than 50 rows are left
\* once the rows with a missing value are dropped; a series of 50 rows or more
\* (199 as well as 200) that the supplier answers with is returned by get_data,
\* and on well-formed bars the run then returns its record unless a divisor of
\* lines 271-272 is zero.
C5_Boundary50 ==
    (pc = "done" /\ ValidArgs) =>
        /\ Len(SuppliedClean) < MinRows => outcome.kind = "MarketDataError"
        /\ (gd["main"].answered /\ Len(SuppliedClean) >= MinRows)
              => Rows(gd["main"].ret) = SuppliedClean
        /\ (/\ SeriesInHand
            /\ Len(SuppliedClean) >= MinRows
            /\ WellFormedBars(SuppliedClean)
            /\ DivisorsNotZero)
              => outcome.kind = "ok"

\* C5 witness: a run on 199 bars has returned its record
C5_Witness ==
    /\ pc = "done"
    /\ ValidArgs
    /\ Len(Supplied) = Warn12mRows - 1
    /\ Len(SuppliedClean) = Warn12mRows - 1
    /\ outcome.kind = "ok"

\* C6: the eur_actual of a returned record is amount x rate to the nearest cent,
\* whatever the market series; 10000 at 0.955 gives 9550.00.
C6_EurActualIsAmountTimesRate ==
    (pc = "done" /\ outcome.kind = "ok") =>
        LET cents == outcome.result.eur_actual
            unit == RateScale \div 100
            exact == args.usd_amount * args.fineco_rate_usd_eur
        IN  /\ 2 * Abs(cents * unit - exact) <= unit
            /\ (args.usd_amount = 10000 /\ args.fineco_rate_usd_eur * 1000 = 955 * RateScale)
                  => cents = 955000

\* C6 witness: 10000 dollars at 0.955 on a series other than the flat ones
C6_Witness ==
    /\ pc = "done"
    /\ outcome.kind = "ok"
    /\ args.usd_amount = 10000
    /\ args.fineco_rate_usd_eur = 955
    /\ outcome.result.eur_actual = 955000
    /\ \E i \in 1..Len(Supplied) : Supplied[i].Close # Supplied[1].Close

\* C7 as stated: a returned record carries a total score in 0..100 that is the
\* sum of the four capped signal scores.
C7_TotalScore ==
    (pc = "done" /\ outcome.kind = "ok") =>
        LET r == outcome.result
        IN  /\ {"total_score", "trend_score", "momentum_score", "volatility_band_score",
                "percentile_score"} \subseteq DOMAIN r
            /\ r.trend_score \in 0..40
            /\ r.momentum_score \in 0..30
            /\ r.volatility_band_score \in 0..20
            /\ r.percentile_score \in 0..10
            /\ r.total_score = r.trend_score + r.momentum_score
                                 + r.volatility_band_score + r.percentile_score

\* the record of the previous identical call and that of this one
BothReturned ==
    /\ pc = "done"
    /\ prev.held
    /\ prev.outcome.kind = "ok"
    /\ outcome.kind = "ok"

\* C8 as stated: two calls in a row with the same arguments on the same series
\* return records that are equal field by field.
C8_IdenticalRecords ==
    BothReturned => outcome.result = prev.outcome.result

\* C8 amended: when both calls return a record, the records agree on every field
\* but data_age_days, which is read off the wall clock and never decreases.
C8_IdenticalButDataAge ==
    BothReturned =>
        /\ \A f \in ResultFields \ {"data_age_days"} :
               outcome.result[f] = prev.outcome.result[f]
        /\ outcome.result.data_age_days >= prev.outcome.result.data_age_days

\* C8 witness: the second call was answered from the cache the first one filled
C8_Witness ==
    /\ BothReturned
    /\ ~gd["main"].issued
    /\ gd["main"].ret # NoData

\* order of the scenarios, best first
ScenarioRank(scenario) ==
    CASE scenario = "ECCELLENTE" -> 1
      [] scenario = "BUONO" -> 2
      [] scenario = "NEUTRO" -> 3
      [] scenario = "SFAVOREVOLE" -> 4

\* C9: the scenario is ECCELLENTE up to 15, BUONO above 15 up to 40, NEUTRO
\* above 40 up to 70 and SFAVOREVOLE above 70; it never improves when the
\* percentile rises and is the same for every volatility, price and SMA50.
C9_ScenarioOfPercentile ==
    cm.called =>
        LET p == cm.percentile
            s == cm.out.scenario
        IN  /\ s = (IF p[1] <= 15 * p[2] THEN "ECCELLENTE"
                    ELSE IF p[1] <= 40 * p[2] THEN "BUONO"
                    ELSE IF p[1] <= 70 * p[2] THEN "NEUTRO"
                    ELSE "SFAVOREVOLE")
            /\ \A q \in CmPercentiles :
                   RLe(q, p) => ScenarioRank(Scenario(q)) <= ScenarioRank(s)
            /\ \A v \in CmVolatilities, mq \in CmPrices :
                   _genera_commento(p, v, mq[1], mq[2]).scenario = s

\* C9 witness: the percentile sits on a threshold and falls in the better bucket
C9_Witness ==
    /\ cm.called
    /\ cm.percentile = RInt(40)
    /\ cm.out.scenario = "BUONO"
    /\ cm.out.ctx_volatilita = "molto volatile"

\* C10 as stated: on well-formed bars a returned record has
\* 0 < worst_eur_historical <= eur_actual <= best_eur_historical before rounding,
\* and its two differences and its potential gain are not negative.
C10_HistoricalOrdering ==
    (pc = "done" /\ outcome.kind = "ok" /\ WellFormedBars(Rows(gd["main"].ret))) =>
        /\ RLt(RInt(0), outcome.locals.worst_eur_historical)
        /\ RLe(outcome.locals.worst_eur_historical, outcome.locals.eur_actual)
        /\ RLe(outcome.locals.eur_actual, outcome.locals.best_eur_historical)
        /\ outcome.result.eur_difference_from_max >= 0
        /\ outcome.result.eur_difference_from_min >= 0
        /\ outcome.result.potential_gain_pct >= 0

\* C11 as stated: when run_full_analysis returned a record, the script prints
\* its report through the last line and does not enter the error branch; the
\* error branch is entered only when run_full_analysis raised.
C11_ReportPrintedWhole ==
    cli.pc = "end" =>
        /\ outcome.kind = "ok" => (cli.branch = "report" /\ cli.printed = ReportLines)
        /\ cli.branch = "error" => outcome.kind # "ok"

\* C11: a record was returned and the script ended in its error branch, the
\* report cut before the line that reads best_day
C11_Witness ==
    /\ cli.pc = "end"
    /\ outcome.kind = "ok"
    /\ cli.branch = "error"
    /\ cli.exc = "AttributeError"
    /\ cli.printed = SubSeq(ReportLines, 1, 12)
    /\ outcome.result.best_day.type = "str"
====
